---- MODULE Spec2Model ----
(***************************************************************************)
(* DistributedAnnDataCollection (scvid/data/distributed_anndata.py): a     *)
(* list of LazyAnnData shards over one shared boltons LRU cache.           *)
(*                                                                         *)
(* Python values are encoded as follows.  Optional[x] is a sequence of     *)
(* length 0 (None) or 1 (<<x>>).  Shard positions and row positions are    *)
(* 0-based as in the source; a Python list l is the TLA+ sequence whose    *)
(* element i+1 is l[i].  A file name is the 0-based position of the file   *)
(* in `filenames` (the names are distinct strings).                        *)
(*                                                                         *)
(* Every call leaves a record of itself in `lastOp` (arguments, the cache  *)
(* hits, file reads and evictions in order, what was read, the error or    *)
(* the result) until it returns.  Spec has the calls of one thread on one  *)
(* collection; SpecRanges has constructions with boundaries of any kind;   *)
(* SpecQuery has queries with selectors in any order; SpecThreads adds a   *)
(* second thread that builds a collection of its own; SpecSingle has one   *)
(* thread that also builds other collections, between its calls.           *)
(***************************************************************************)
EXTENDS Integers, Sequences, FiniteSets

\* ------------------------------------------------------------------ bounds
\* largest max_cache_size tried
MaxCap == 2
\* largest row count of a file / largest shard_size tried
MaxObs == 2
\* longest explicit row selector of a query, longest explicit `limits` list
MaxSel == 1

\* numbers of files a collection is built from
FileCounts == {0, 1, 2, 3}
\* longest `indices` argument of materialize
MaxReq == MaxCap + 1

\* column-name signatures of a tracked attribute group
Cols == {"a", "b"}
\* the columns of the first file when the collection is built
RefCols == "a"

\* ------------------------------------------------------------ Python values
None == <<>>
Some(x) == <<x>>
IsNone(o) == Len(o) = 0
Opt(S) == {None} \cup {Some(x) : x \in S}

RECURSIVE SeqsUpTo(_, _)
SeqsUpTo(S, k) ==
    IF k = 0 THEN {<<>>}
    ELSE LET shorter == SeqsUpTo(S, k - 1)
         IN  shorter \cup {Append(s, x) : s \in {t \in shorter : Len(t) = k - 1}, x \in S}

Range(s) == {s[j] : j \in 1..Len(s)}

\* what read_h5ad_file can return: an AnnData with a row count and the column
\* names of its tracked attribute groups
Contents == [n_obs : 1..MaxObs, cols : Cols]

\* AnnDataSchema(adata0): the column signature of the reference file
AnnDataSchema(adata0) == adata0.cols

\* AnnDataSchema.validate_anndata(adata): "none" or the error raised; the row
\* count is not looked at
validate_anndata(schema, adata) ==
    IF adata.cols = schema THEN "none" ELSE "SchemaMismatchError"

\* ---------------------------------------------------------------- LRU cache
\* boltons.cacheutils.LRU: max_size and the linked list of [key, value], least
\* recently used first, most recently used last.

\* LRU(max_size): the error the constructor raises, or "none"
LRUInitError(max_size) ==
    IF IsNone(max_size) THEN "TypeError"
    ELSE IF max_size[1] <= 0 THEN "ValueError"
    ELSE "none"

LRUNew(max_size) == [max_size |-> max_size[1], items |-> <<>>]

Keys(c) == [j \in 1..Len(c.items) |-> c.items[j].key]

Position(c, key) == CHOOSE j \in 1..Len(c.items) : c.items[j].key = key

Without(items, j) ==
    SubSeq(items, 1, j - 1) \o SubSeq(items, j + 1, Len(items))

\* a presence check that counts as a touch
LRUContainsTouch(c, key) ==
    IF \E j \in 1..Len(c.items) : c.items[j].key = key
    THEN [found |-> TRUE,
          cache |-> [c EXCEPT !.items = Append(Without(c.items, Position(c, key)),
                                               c.items[Position(c, key)])]]
    ELSE [found |-> FALSE, cache |-> c]

\* key in cache: dict.__contains__, which leaves the linked list alone
LRUContains(c, key) ==
    [found |-> \E j \in 1..Len(c.items) : c.items[j].key = key, cache |-> c]

\* a hit that leaves the recency order alone
LRUGetItemNoTouch(c, key) ==
    [value |-> c.items[Position(c, key)].value, cache |-> c]

\* cache[key] on a hit: the value, and the entry moved to most recently used
LRUGetItem(c, key) ==
    LET j == Position(c, key)
    IN  [value |-> c.items[j].value,
         cache |-> [c EXCEPT !.items = Append(Without(c.items, j), c.items[j])]]

\* an insertion that never evicts
LRUSetItemNoEvict(c, key, value) ==
    [c EXCEPT !.items = Append(c.items, [key |-> key, value |-> value])]

\* an insertion that evicts the most recently used entry
LRUSetItemEvictNewest(c, key, value) ==
    LET e == [key |-> key, value |-> value]
    IN  IF \E j \in 1..Len(c.items) : c.items[j].key = key
        THEN [c EXCEPT !.items = Append(Without(c.items, Position(c, key)), e)]
        ELSE IF Len(c.items) < c.max_size
        THEN [c EXCEPT !.items = Append(c.items, e)]
        ELSE [c EXCEPT !.items = Append(SubSeq(c.items, 1, Len(c.items) - 1), e)]

\* cache[key] = value
LRUSetItem(c, key, value) ==
    LET e == [key |-> key, value |-> value]
    IN  IF LRUContains(c, key).found
        THEN [c EXCEPT !.items = Append(Without(c.items, Position(c, key)), e)]
        ELSE IF Len(c.items) < c.max_size
        THEN [c EXCEPT !.items = Append(c.items, e)]
        ELSE [c EXCEPT !.items = Append(Tail(c.items), e)]

\* -------------------------------------------------------------------- state
VARIABLES
    built,                          \* a collection object exists
    filenames,                      \* self.filenames
    limits,                         \* self.limits
    max_cache_size,                 \* self.max_cache_size
    cache_size_strictly_enforced,   \* self.cache_size_strictly_enforced
    schema,                         \* self.schema
    cache,                          \* self.cache, shared by every shard
    adatas,                         \* self.adatas: the LazyAnnData list
    lastOp,                         \* the call that has just run and not yet returned:
                                    \* its arguments, its events in order, its outcome
    lazy,                           \* _GETATTR_MODE.lazy, one flag for the process
    peer                            \* the construction of another collection in the
                                    \* process: "out" (none yet), "in" its `with
                                    \* lazy_getattr()` block, "returned" or "raised"

vars == <<built, filenames, limits, max_cache_size, cache_size_strictly_enforced,
          schema, cache, adatas, lastOp, lazy, peer>>

NoCache == [max_size |-> 0, items |-> <<>>]

\* `prev` is set when the call repeats the call before it: that call's events
\* and result.  `reads` is what read_h5ad_file returned to the call, in order:
\* the calls that read a file set it.
Op(name, args, indices, raised, trace, result) ==
    [name |-> name, args |-> args, indices |-> indices, raised |-> raised,
     trace |-> trace, result |-> result, prev |-> None, reads |-> <<>>]

Init ==
    /\ built = FALSE
    /\ filenames = <<>>
    /\ limits = <<>>
    /\ max_cache_size = None
    /\ cache_size_strictly_enforced = FALSE
    /\ schema = None
    /\ cache = NoCache
    /\ adatas = <<>>
    /\ lastOp = Op("init", <<>>, <<>>, "none", <<>>, <<>>)
    /\ lazy = FALSE
    /\ peer = "out"

\* ------------------------------------------------------------- construction
\* LazyAnnData(filename, (start, end), schema, cache)
LazyAnnData(filename, start, end) == [filename |-> filename, limits |-> <<start, end>>]

\* LazyAnnData.n_obs
n_obs(sh) == sh.limits[2] - sh.limits[1]

\* [LazyAnnData(...) for start, end, filename in zip([0] + limits, limits, filenames)]
LazyAdatas(lims, files) ==
    LET m == IF Len(lims) < Len(files) THEN Len(lims) ELSE Len(files)
    IN  [j \in 1..m |-> LazyAnnData(files[j], IF j = 1 THEN 0 ELSE lims[j - 1], lims[j])]

\* limits computed from shard_size and last_shard_size
ShardSizeLimits(n, shard_size, last_shard_size) ==
    [j \in 1..n |->
        IF j = n /\ ~IsNone(last_shard_size)
        THEN shard_size[1] * j - shard_size[1] + last_shard_size[1]
        ELSE shard_size[1] * j]

\* AnnCollection.__init__: self.limits is the running sum of the shards' n_obs
RECURSIVE CumulativeNObs(_, _)
CumulativeNObs(shards, k) ==
    IF k = 0 THEN <<>>
    ELSE LET before == CumulativeNObs(shards, k - 1)
         IN  Append(before, (IF k = 1 THEN 0 ELSE before[k - 1]) + n_obs(shards[k]))

\* explicit `limits` arguments: boundary lists whose shards have 1..MaxObs rows
RECURSIVE Boundaries(_)
Boundaries(k) ==
    IF k = 0 THEN {<<>>}
    ELSE {Append(b, (IF Len(b) = 0 THEN 0 ELSE b[Len(b)]) + d) :
             b \in Boundaries(k - 1), d \in 1..MaxObs}

ExplicitLimits == UNION {Boundaries(k) : k \in 1..MaxSel}

\* an argument check that rejects only a call with neither limits nor shard_size
InitArgErrorNeitherOnly(n, limitsArg, shard_size, last_shard_size) ==
    IF n = 0 THEN "IndexError"
    ELSE IF IsNone(limitsArg) /\ IsNone(shard_size) THEN "ValueError"
    ELSE LET lims == IF ~IsNone(shard_size)
                     THEN ShardSizeLimits(n, shard_size, last_shard_size)
                     ELSE limitsArg[1]
         IN  IF Len(lims) # n THEN "AssertionError" ELSE "none"

\* the error __init__ raises before it builds the cache, or "none"
InitArgError(n, limitsArg, shard_size, last_shard_size) ==
    IF n = 0 THEN "IndexError"
    ELSE IF IsNone(limitsArg) = IsNone(shard_size) THEN "ValueError"
    ELSE IF IsNone(shard_size) /\ ~IsNone(last_shard_size) THEN "ValueError"
    ELSE LET lims == IF ~IsNone(shard_size)
                     THEN ShardSizeLimits(n, shard_size, last_shard_size)
                     ELSE limitsArg[1]
         IN  IF Len(lims) # n THEN "AssertionError" ELSE "none"

ConstructArgs(n, limitsArg, shard_size, last_shard_size, cap, strict) ==
    [n |-> n, limits |-> limitsArg, shard_size |-> shard_size,
     last_shard_size |-> last_shard_size, max_cache_size |-> cap,
     cache_size_strictly_enforced |-> strict]

ConstructFails(args, err) ==
    /\ lastOp' = Op("construct", args, <<>>, err, <<>>, <<>>)
    /\ UNCHANGED <<built, filenames, limits, max_cache_size,
                   cache_size_strictly_enforced, schema, cache, adatas, lazy, peer>>

\* an exit of the `with` block that resets the flag only when the block returns
FlagOnExitNoFinally(raised) == raised

\* lazy_getattr, the finally clause: the flag after the `with` block is left,
\* by a return or by an exception
FlagOnExit(raised) == FALSE

\* DistributedAnnDataCollection(filenames, limits, shard_size, last_shard_size,
\*                              max_cache_size, cache_size_strictly_enforced),
\* the arguments drawn from the given sets.  AnnCollection.__init__ runs inside
\* `with lazy_getattr()`, which leaves the flag False on exit.
ConstructWith(Ns, LimitArgs, ShardSizes, LastSizes, Caps, Stricts) ==
    /\ ~built
    /\ lastOp.name = "init"
    /\ \E n \in Ns, limitsArg \in LimitArgs, shard_size \in ShardSizes,
          last_shard_size \in LastSizes, cap \in Caps, strict \in Stricts,
          adata0 \in {a \in Contents : a.cols = RefCols} :
        LET args == ConstructArgs(n, limitsArg, shard_size, last_shard_size, cap, strict)
            files == [j \in 1..n |-> j - 1]
            argErr == InitArgError(n, limitsArg, shard_size, last_shard_size)
            lims == IF ~IsNone(shard_size)
                    THEN ShardSizeLimits(n, shard_size, last_shard_size)
                    ELSE limitsArg[1]
            shards == LazyAdatas(lims, files)
        IN  IF argErr # "none" THEN ConstructFails(args, argErr)
            ELSE IF LRUInitError(cap) # "none" THEN ConstructFails(args, LRUInitError(cap))
            ELSE /\ built' = TRUE
                 /\ filenames' = files
                 /\ max_cache_size' = cap
                 /\ cache_size_strictly_enforced' = strict
                 /\ cache' = LRUSetItem(LRUNew(cap), files[1], adata0)
                 /\ schema' = Some(AnnDataSchema(adata0))
                 /\ adatas' = shards
                 /\ limits' = CumulativeNObs(shards, Len(shards))
                 /\ lazy' = FlagOnExit(FALSE)
                 /\ UNCHANGED peer
                 /\ lastOp' = [Op("construct", args, <<>>, "none",
                                  <<<<"load", files[1]>>>>, <<>>)
                                   EXCEPT !.reads = <<[filename |-> files[1], adata |-> adata0]>>]

\* a construction with any of the bounded arguments
Construct ==
    ConstructWith(FileCounts, Opt(ExplicitLimits), Opt(1..MaxObs), Opt(1..MaxObs),
                  Opt(0..MaxCap), BOOLEAN)

\* the construction of the five-shard scenario: five equal shards, capacity 2,
\* strict enforcement
ConstructFive ==
    ConstructWith({5}, {None}, {Some(MaxObs)}, {None}, {Some(2)}, {TRUE})

\* `limits` arguments of any kind: boundary lists that need not increase
AnyLimits == SeqsUpTo(0..(MaxObs + 1), 2)

\* a construction whose limits and sizes are any small numbers, zero included
ConstructAny ==
    ConstructWith(FileCounts, Opt(AnyLimits), Opt(0..MaxObs), Opt(0..MaxObs),
                  Opt(0..MaxCap), BOOLEAN)

\* ------------------------------------------------------------ shard content
Event(kind, filename) == <<kind, filename>>

HasKey(c, key) == \E j \in 1..Len(c.items) : c.items[j].key = key

\* the keys an insertion dropped from the cache, oldest first, as events
Evictions(before, after) ==
    LET F[j \in 0..Len(before.items)] ==
            IF j = 0 THEN <<>>
            ELSE IF HasKey(after, before.items[j].key) THEN F[j - 1]
            ELSE Append(F[j - 1], Event("evict", before.items[j].key))
    IN  F[Len(before.items)]

\* a fetch that validates and returns the content without caching it
FetchedNotCached(c, sh, sch, adata) ==
    LET load == <<Event("load", sh.filename)>>
        read == <<[filename |-> sh.filename, adata |-> adata]>>
    IN  IF n_obs(sh) # adata.n_obs
        THEN [cache |-> c, trace |-> load, raised |-> "AssertionError", value |-> None,
              reads |-> read]
        ELSE IF validate_anndata(sch, adata) # "none"
        THEN [cache |-> c, trace |-> load, raised |-> validate_anndata(sch, adata),
              value |-> None, reads |-> read]
        ELSE [cache |-> c, trace |-> load, raised |-> "none", value |-> Some(adata),
              reads |-> read]

\* a fetch that caches what it read before it checks it
FetchedCachedUnchecked(c, sh, sch, adata) ==
    LET load == <<Event("load", sh.filename)>>
        read == <<[filename |-> sh.filename, adata |-> adata]>>
        inserted == LRUSetItem(c, sh.filename, adata)
        events == load \o Evictions(c, inserted)
    IN  IF n_obs(sh) # adata.n_obs
        THEN [cache |-> inserted, trace |-> events, raised |-> "AssertionError",
              value |-> None, reads |-> read]
        ELSE IF validate_anndata(sch, adata) # "none"
        THEN [cache |-> inserted, trace |-> events,
              raised |-> validate_anndata(sch, adata), value |-> None, reads |-> read]
        ELSE [cache |-> inserted, trace |-> events, raised |-> "none",
              value |-> Some(adata), reads |-> read]

\* a fetch that checks the row count and not the schema
FetchedNoSchemaCheck(c, sh, sch, adata) ==
    LET load == <<Event("load", sh.filename)>>
        read == <<[filename |-> sh.filename, adata |-> adata]>>
        inserted == LRUSetItem(c, sh.filename, adata)
    IN  IF n_obs(sh) # adata.n_obs
        THEN [cache |-> c, trace |-> load, raised |-> "AssertionError", value |-> None,
              reads |-> read]
        ELSE [cache |-> inserted, trace |-> load \o Evictions(c, inserted),
              raised |-> "none", value |-> Some(adata), reads |-> read]

\* the except KeyError branch of LazyAnnData.adata, for one result `adata` of
\* read_h5ad_file: the row-count assertion, the schema validation, the insertion
Fetched(c, sh, sch, adata) ==
    LET load == <<Event("load", sh.filename)>>
        read == <<[filename |-> sh.filename, adata |-> adata]>>
        inserted == LRUSetItem(c, sh.filename, adata)
    IN  IF n_obs(sh) # adata.n_obs
        THEN [cache |-> c, trace |-> load, raised |-> "AssertionError", value |-> None,
              reads |-> read]
        ELSE IF validate_anndata(sch, adata) # "none"
        THEN [cache |-> c, trace |-> load, raised |-> validate_anndata(sch, adata),
              value |-> None, reads |-> read]
        ELSE [cache |-> inserted, trace |-> load \o Evictions(c, inserted),
              raised |-> "none", value |-> Some(adata), reads |-> read]

\* LazyAnnData.adata: every outcome the property can have on cache c
AdataOutcomes(c, sh, sch) ==
    IF HasKey(c, sh.filename)
    THEN LET got == LRUGetItem(c, sh.filename)
         IN  {[cache |-> got.cache, trace |-> <<Event("hit", sh.filename)>>,
               raised |-> "none", value |-> Some(got.value), reads |-> <<>>]}
    ELSE {Fetched(c, sh, sch, adata) : adata \in Contents}

\* LazyAnnData.cached
Cached(c, sh) == LRUContains(c, sh.filename)

\* -------------------------------------------------------------- materialize
\* the running state of one materialize call: the cache, the events so far, the
\* error raised if any, and the local list `adatas`
MStart(c, k) ==
    [cache |-> c, trace |-> <<>>, raised |-> "none", adatas |-> [j \in 1..k |-> None],
     reads |-> <<>>]

\* adatas[i] = self.adatas[idx].adata
Assign(m, i, o) ==
    [cache |-> o.cache, trace |-> m.trace \o o.trace, raised |-> o.raised,
     adatas |-> IF o.raised = "none" THEN [m.adatas EXCEPT ![i] = o.value] ELSE m.adatas,
     reads |-> m.reads \o o.reads]

\* one iteration of a loop of materialize: the shard at indices[i] is fetched
\* when its residency is `wanted`
LoopBody(m, shards, sch, indices, i, wanted) ==
    IF m.raised # "none" THEN {m}
    ELSE LET sh == shards[indices[i] + 1]
             chk == Cached(m.cache, sh)
             seen == [m EXCEPT !.cache = chk.cache]
         IN  IF chk.found = wanted
             THEN {Assign(seen, i, o) : o \in AdataOutcomes(seen.cache, sh, sch)}
             ELSE {seen}

RECURSIVE Loop(_, _, _, _, _, _)
Loop(M, shards, sch, indices, i, wanted) ==
    IF i > Len(indices) THEN M
    ELSE Loop(UNION {LoopBody(m, shards, sch, indices, i, wanted) : m \in M},
              shards, sch, indices, i + 1, wanted)

\* a strict-enforcement check that counts each requested shard once
StrictErrorDistinct(strict, cap, indices) ==
    IF ~strict THEN "none"
    ELSE IF IsNone(cap) THEN "TypeError"
    ELSE IF Cardinality(Range(indices)) <= cap[1] THEN "none"
    ELSE "AssertionError"

\* the strict-enforcement assertion of materialize: the error raised, or "none"
StrictError(strict, cap, indices) ==
    IF ~strict THEN "none"
    ELSE IF IsNone(cap) THEN "TypeError"
    ELSE IF Len(indices) <= cap[1] THEN "none"
    ELSE "AssertionError"

\* a materialize that caches the new files first and only then fetches the cached
MaterializeNewFirst(c, shards, sch, strict, cap, indices) ==
    IF StrictError(strict, cap, indices) # "none"
    THEN {[MStart(c, Len(indices)) EXCEPT !.raised = StrictError(strict, cap, indices)]}
    ELSE Loop(Loop({MStart(c, Len(indices))}, shards, sch, indices, 1, FALSE),
              shards, sch, indices, 1, TRUE)

\* self.materialize(indices): every final state the call can end in
MaterializeOutcomes(c, shards, sch, strict, cap, indices) ==
    IF StrictError(strict, cap, indices) # "none"
    THEN {[MStart(c, Len(indices)) EXCEPT !.raised = StrictError(strict, cap, indices)]}
    ELSE Loop(Loop({MStart(c, Len(indices))}, shards, sch, indices, 1, TRUE),
              shards, sch, indices, 1, FALSE)

ShardPositions == 0..(Len(adatas) - 1)

Returned(m) == IF m.raised = "none" THEN m.adatas ELSE <<>>

Frame == UNCHANGED <<built, filenames, limits, max_cache_size,
                     cache_size_strictly_enforced, schema, adatas, lazy, peer>>

Idle == Op("idle", <<>>, <<>>, "none", <<>>, <<>>)

\* a method of the collection can be called: it is built and no call is running
Callable == built /\ lastOp.name = "idle"

\* one call dadc.materialize(indices)
MaterializeCall(indices, is_int) ==
    \E m \in MaterializeOutcomes(cache, adatas, schema[1],
                cache_size_strictly_enforced, max_cache_size, indices) :
        /\ cache' = m.cache
        /\ lastOp' = [Op("materialize", [is_int |-> is_int, indices |-> indices],
                         indices, m.raised, m.trace, Returned(m))
                          EXCEPT !.reads = m.reads]

\* dadc.materialize(indices), indices an int or a sequence of ints
Materialize ==
    /\ Callable
    /\ \E indices \in SeqsUpTo(ShardPositions, MaxReq), is_int \in BOOLEAN :
        /\ is_int => Len(indices) = 1
        /\ MaterializeCall(indices, is_int)
    /\ Frame

\* ------------------------------------------------------------------- query
\* np.unique(u_oidx): the sorted distinct positions
RECURSIVE SortedSet(_)
SortedSet(S) ==
    IF S = {} THEN <<>>
    ELSE LET lo == CHOOSE x \in S : \A y \in S : x <= y
         IN  <<lo>> \o SortedSet(S \ {lo})

Inside(sh, g) == g >= sh.limits[1] /\ g < sh.limits[2]

SelectSeq2(s, sh) ==
    LET F[j \in 0..Len(s)] ==
            IF j = 0 THEN <<>>
            ELSE IF Inside(sh, s[j]) THEN Append(F[j - 1], s[j] - sh.limits[1])
            ELSE F[j - 1]
    IN  F[Len(s)]

\* a resolution that never sorts the positions
NeedReverseNever(shards, oidx) == FALSE

\* _resolve_idx: need_reverse, for a collection of two shards or more
NeedReverse(shards, oidx) ==
    LET used == {j \in 1..Len(shards) : \E g \in Range(oidx) : Inside(shards[j], g)}
    IN  /\ Cardinality(used) > 1
        /\ Len(oidx) > 1
        /\ \E j \in 1..(Len(oidx) - 1) : oidx[j] > oidx[j + 1]

\* AnnCollection._resolve_idx(oidx, vidx)[0]: for each shard the local offsets
\* asked of it, or None; a collection of one shard gets the positions as they
\* are.  indices_strict is left at its default, True.
ResolveIdx(shards, oidx) ==
    IF Len(shards) = 1 THEN <<Some(oidx)>>
    ELSE LET need_reverse == NeedReverse(shards, oidx)
             u_oidx == IF need_reverse THEN SortedSet(Range(oidx)) ELSE oidx
         IN  [j \in 1..Len(shards) |->
                 IF \E g \in Range(u_oidx) : Inside(shards[j], g)
                 THEN Some(SelectSeq2(u_oidx, shards[j]))
                 ELSE None]

\* AnnCollection._resolve_idx(oidx, vidx)[3]: the inverse of np.unique, the
\* 0-based place of each selector position among the sorted distinct positions,
\* or None when the positions were not sorted
Reverse(shards, oidx) ==
    IF Len(shards) = 1 \/ ~NeedReverse(shards, oidx) THEN None
    ELSE LET u == SortedSet(Range(oidx))
         IN  Some([k \in 1..Len(oidx) |->
                      (CHOOSE j \in 1..Len(u) : u[j] = oidx[k]) - 1])

\* resolved_idx: what the AnnCollectionView is built from
ResolvedIdx(shards, oidx) ==
    [adatas_oidx |-> ResolveIdx(shards, oidx), oidx |-> oidx,
     reverse |-> Reverse(shards, oidx)]

\* the rows of an AnnCollectionView, each as <<shard position, local offset>>:
\* the rows taken from each shard that has offsets, shard after shard, put back
\* in the order of `reverse` when there is one
ViewRows(resolved) ==
    LET F[j \in 0..Len(resolved.adatas_oidx)] ==
            IF j = 0 THEN <<>>
            ELSE IF IsNone(resolved.adatas_oidx[j]) THEN F[j - 1]
            ELSE F[j - 1] \o [k \in 1..Len(resolved.adatas_oidx[j][1]) |->
                                 <<j - 1, resolved.adatas_oidx[j][1][k]>>]
        gathered == F[Len(resolved.adatas_oidx)]
    IN  IF IsNone(resolved.reverse) THEN gathered
        ELSE [k \in 1..Len(resolved.reverse[1]) |-> gathered[resolved.reverse[1][k] + 1]]

\* [i for i, e in enumerate(resolved_idx[0]) if e is not None]
AdatasIndices(resolved) ==
    LET F[j \in 0..Len(resolved)] ==
            IF j = 0 THEN <<>>
            ELSE IF IsNone(resolved[j]) THEN F[j - 1]
            ELSE Append(F[j - 1], j - 1)
    IN  F[Len(resolved)]

TotalRows == IF Len(limits) = 0 THEN 0 ELSE limits[Len(limits)]

\* np.arange(start, stop): what _resolve_idx makes of the slice start:stop
Arange(start, stop) == [j \in 1..(stop - start) |-> start + j - 1]

\* the selectors tried: explicit sequences of row positions, in range or just
\* outside, and slices start:stop
Selectors ==
    SeqsUpTo(-1..TotalRows, MaxSel)
        \cup {Arange(a, b) : a \in 0..TotalRows, b \in 0..TotalRows}

\* selectors of up to two rows of the table in any order, and of four rows the
\* first of which comes again as the third
OrderedSelectors ==
    SeqsUpTo(0..(TotalRows - 1), 2)
        \cup {<<a, b, a, c>> : a \in 0..(TotalRows - 1), b \in 0..(TotalRows - 1),
                               c \in 0..(TotalRows - 1)}

\* dadc[index], index one of the given arrays of global row positions: the
\* result is the resolved_idx the returned view holds
GetitemWith(Sels) ==
    /\ Callable
    /\ \E oidx \in Sels :
        LET resolved == ResolvedIdx(adatas, oidx)
            indices == AdatasIndices(resolved.adatas_oidx)
        IN  \E m \in MaterializeOutcomes(cache, adatas, schema[1],
                        cache_size_strictly_enforced, max_cache_size, indices) :
                /\ cache' = m.cache
                /\ lastOp' = [Op("getitem", oidx, indices, m.raised, m.trace,
                                 IF m.raised = "none" THEN resolved ELSE <<>>)
                                  EXCEPT !.reads = m.reads]
    /\ Frame

\* dadc[index], index a short array of row positions or a slice
Getitem == GetitemWith(Selectors)

\* dadc[index], index an array of rows in any order, with repetitions
GetitemOrdered == GetitemWith(OrderedSelectors)

\* the collections queried with the longer selectors: one or three shards with
\* boundaries of any spacing, a cache that holds every shard
ConstructQuery ==
    ConstructWith({1, 3}, {Some(b) : b \in Boundaries(1) \cup Boundaries(3)}, {None},
                  {None}, {Some(MaxCap + 1)}, {FALSE})

\* ---------------------------------------------------------- single shards
\* one read of dadc.adatas[idx].adata
AdataCall(idx) ==
    \E o \in AdataOutcomes(cache, adatas[idx + 1], schema[1]) :
        /\ cache' = o.cache
        /\ lastOp' = [Op("adata", <<idx>>, <<idx>>, o.raised, o.trace, o.value)
                          EXCEPT !.reads = o.reads]

\* dadc.adatas[idx].adata: the content of one shard
Adata ==
    /\ Callable
    /\ \E idx \in ShardPositions : AdataCall(idx)
    /\ Frame

\* the content of one shard has just been returned, by adata or by materialize
ReturnedOneShard(op) ==
    /\ op.name \in {"adata", "materialize"}
    /\ op.raised = "none"
    /\ Len(op.indices) = 1

\* what the call before this one did
Before(op) == Some([trace |-> op.trace, result |-> op.result])

\* the caller asks for the same shard again, by the same call, right after
Repeat ==
    /\ built
    /\ ReturnedOneShard(lastOp)
    /\ IsNone(lastOp.prev)
    /\ IF lastOp.name = "adata"
       THEN \E o \in AdataOutcomes(cache, adatas[lastOp.indices[1] + 1], schema[1]) :
               /\ cache' = o.cache
               /\ lastOp' = [lastOp EXCEPT !.raised = o.raised, !.trace = o.trace,
                                           !.result = o.value, !.prev = Before(lastOp),
                                           !.reads = o.reads]
       ELSE \E m \in MaterializeOutcomes(cache, adatas, schema[1],
                        cache_size_strictly_enforced, max_cache_size, lastOp.indices) :
               /\ cache' = m.cache
               /\ lastOp' = [lastOp EXCEPT !.raised = m.raised, !.trace = m.trace,
                                           !.result = Returned(m), !.prev = Before(lastOp),
                                           !.reads = m.reads]
    /\ Frame

\* the call read shard content and stopped at a file that failed the row-count
\* assertion or the schema validation
LoadFailed(op) ==
    /\ op.name \in {"adata", "materialize", "getitem"}
    /\ op.raised \in {"AssertionError", "SchemaMismatchError"}
    /\ Len(op.reads) > 0

\* the file whose read failed
FailedFile(op) == op.reads[Len(op.reads)].filename

\* after a query stopped at a failed load, the caller reads the content of that
\* shard: dadc.adatas[idx].adata
Retry ==
    /\ built
    /\ lastOp.name = "getitem"
    /\ LoadFailed(lastOp)
    /\ \E k \in 1..Len(adatas) :
        /\ adatas[k].filename = FailedFile(lastOp)
        /\ \E o \in AdataOutcomes(cache, adatas[k], schema[1]) :
               /\ cache' = o.cache
               /\ lastOp' = [Op("retry", [failed |-> lastOp.name, idx |-> k - 1],
                                <<k - 1>>, o.raised, o.trace, o.value)
                                 EXCEPT !.reads = o.reads]
    /\ Frame

\* ------------------------------------------------------ attribute access
\* LazyAnnData._lazy_attrs (one of them), and the attributes read of a shard:
\* one that is lazy, one that only the backed AnnData has, one that nothing has
LazyAttrs == {"obs"}
AnnDataAttrs == {"obs", "X"}
Attrs == {"obs", "X", "foo"}

\* LazyAnnData.__getattr__(attr) of shard sh with the flag at `flag`: every
\* outcome, the value a schema value or a value of the backed AnnData
GetattrOutcomes(flag, c, sh, sch, attr) ==
    IF flag
    THEN {[cache |-> c, trace |-> <<>>, reads |-> <<>>,
           raised |-> IF attr \in LazyAttrs THEN "none" ELSE "AttributeError",
           value |-> IF attr \in LazyAttrs
                     THEN Some([kind |-> "schema", of |-> sch, attr |-> attr])
                     ELSE None]}
    ELSE {[cache |-> o.cache, trace |-> o.trace, reads |-> o.reads,
           raised |-> IF o.raised # "none" THEN o.raised
                      ELSE IF attr \in AnnDataAttrs THEN "none" ELSE "AttributeError",
           value |-> IF o.raised = "none" /\ attr \in AnnDataAttrs
                     THEN Some([kind |-> "content", of |-> o.value[1], attr |-> attr])
                     ELSE None] : o \in AdataOutcomes(c, sh, sch)}

\* dadc.adatas[idx].<attr>, as the view of a query reads a shard
Getattr ==
    /\ Callable
    /\ \E idx \in ShardPositions, attr \in Attrs :
        \E o \in GetattrOutcomes(lazy, cache, adatas[idx + 1], schema[1], attr) :
            /\ cache' = o.cache
            /\ lastOp' = [Op("getattr", [idx |-> idx, attr |-> attr], <<idx>>,
                             o.raised, o.trace, o.value)
                              EXCEPT !.reads = o.reads]
    /\ Frame

\* the construction of another collection enters `with lazy_getattr()`
PeerEnter ==
    /\ peer # "in"
    /\ peer' = "in"
    /\ lazy' = TRUE
    /\ UNCHANGED <<built, filenames, limits, max_cache_size,
                   cache_size_strictly_enforced, schema, cache, adatas, lastOp>>

\* the other construction leaves the `with` block, AnnCollection.__init__
\* having returned or raised: the finally clause
PeerExit ==
    /\ peer = "in"
    /\ \E raised \in BOOLEAN :
        /\ peer' = IF raised THEN "raised" ELSE "returned"
        /\ lazy' = FlagOnExit(raised)
    /\ UNCHANGED <<built, filenames, limits, max_cache_size,
                   cache_size_strictly_enforced, schema, cache, adatas, lastOp>>

\* one thread only: a call on the collection runs when no other construction
\* is in progress, and another construction begins when no call is running
ConstructAlone == peer # "in" /\ Construct
AdataAlone == peer # "in" /\ Adata
GetattrAlone == peer # "in" /\ Getattr
OtherConstructEnter == lastOp.name \in {"init", "idle"} /\ PeerEnter

\* dadc.adatas[idx].cached: the presence check of one shard
IsCached ==
    /\ Callable
    /\ \E idx \in ShardPositions :
        LET chk == Cached(cache, adatas[idx + 1])
        IN  /\ cache' = chk.cache
            /\ lastOp' = Op("cached", <<idx>>, <<idx>>, "none", <<>>, <<chk.found>>)
    /\ Frame

\* -------------------------------------------------------------- persistence
\* __getstate__: the instance dict without "cache" and "adatas"
GetState ==
    /\ Callable
    /\ lastOp' = Op("getstate", <<>>, <<>>, "none", <<>>,
                    [filenames |-> filenames, limits |-> limits,
                     max_cache_size |-> max_cache_size,
                     cache_size_strictly_enforced |-> cache_size_strictly_enforced,
                     schema |-> schema])
    /\ UNCHANGED <<built, filenames, limits, max_cache_size,
                   cache_size_strictly_enforced, schema, cache, adatas, lazy, peer>>

\* a restore that takes the cache over from the saved object
SetStateKeepsCache ==
    /\ lastOp.name = "getstate"
    /\ LET state == lastOp.result
       IN  /\ built' = TRUE
           /\ filenames' = state.filenames
           /\ limits' = state.limits
           /\ max_cache_size' = state.max_cache_size
           /\ cache_size_strictly_enforced' = state.cache_size_strictly_enforced
           /\ schema' = state.schema
           /\ cache' = cache
           /\ adatas' = LazyAdatas(state.limits, state.filenames)
           /\ lastOp' = Op("setstate", state, Keys(cache), "none", <<>>, <<>>)
           /\ UNCHANGED <<lazy, peer>>

\* __setstate__(state), state the dict __getstate__ has just returned, on the
\* object unpickling creates; the record keeps, as `indices`, the files that
\* were resident in the saved object
SetState ==
    /\ lastOp.name = "getstate"
    /\ LET state == lastOp.result
       IN  IF LRUInitError(state.max_cache_size) # "none"
           THEN /\ lastOp' = Op("setstate", state, Keys(cache),
                                LRUInitError(state.max_cache_size), <<>>, <<>>)
                /\ UNCHANGED <<built, filenames, limits, max_cache_size,
                               cache_size_strictly_enforced, schema, cache, adatas, lazy, peer>>
           ELSE /\ built' = TRUE
                /\ filenames' = state.filenames
                /\ limits' = state.limits
                /\ max_cache_size' = state.max_cache_size
                /\ cache_size_strictly_enforced' = state.cache_size_strictly_enforced
                /\ schema' = state.schema
                /\ cache' = LRUNew(state.max_cache_size)
                /\ adatas' = LazyAdatas(state.limits, state.filenames)
                /\ lastOp' = Op("setstate", state, Keys(cache), "none", <<>>, <<>>)
                /\ UNCHANGED <<lazy, peer>>

\* the call returns (or raises) to its caller
Return ==
    /\ lastOp.name \notin {"init", "idle"}
    /\ lastOp' = Idle
    /\ UNCHANGED <<built, filenames, limits, max_cache_size,
                   cache_size_strictly_enforced, schema, cache, adatas, lazy, peer>>

Next ==
    \/ Construct
    \/ ConstructFive
    \/ Materialize
    \/ Getitem
    \/ Adata
    \/ Repeat
    \/ Retry
    \/ Getattr
    \/ IsCached
    \/ GetState
    \/ SetState
    \/ Return


Spec == Init /\ [][Next]_vars

\* constructions only, with boundaries and sizes of any kind
NextRanges ==
    \/ ConstructAny
    \/ Return

SpecRanges == Init /\ [][NextRanges]_vars

\* queries with selectors in any order
NextQuery ==
    \/ ConstructQuery
    \/ GetitemOrdered
    \/ Return

SpecQuery == Init /\ [][NextQuery]_vars

\* one thread uses the collection while another builds a collection of its own
NextThreads ==
    \/ Construct
    \/ Adata
    \/ Getattr
    \/ PeerEnter
    \/ PeerExit
    \/ Return

SpecThreads == Init /\ [][NextThreads]_vars

\* one thread that builds and uses the collection and builds other collections
NextSingle ==
    \/ ConstructAlone
    \/ AdataAlone
    \/ GetattrAlone
    \/ OtherConstructEnter
    \/ PeerExit
    \/ Return

SpecSingle == Init /\ [][NextSingle]_vars

\* ------------------------------------------------------------------ claims
Capacity == max_cache_size[1]
FileOf(idx) == adatas[idx + 1].filename
Resident(c, idx) == HasKey(c, FileOf(idx))
Kinds(trace) == [j \in 1..Len(trace) |-> trace[j][1]]
Count(trace, ev) == Cardinality({j \in 1..Len(trace) : trace[j] = ev})
LastKeys(c, k) == {c.items[j].key : j \in (Len(c.items) - k + 1)..Len(c.items)}
\* the call is stopped by the strict-enforcement assertion
OverCapacity(op) == cache_size_strictly_enforced /\ Len(op.indices) > Capacity

\* C1: when a capacity is set, the number of shards resident in the cache of a
\* built collection never exceeds it, whatever calls were made.
C1_CacheWithinCapacity ==
    (built /\ ~IsNone(max_cache_size)) => Len(cache.items) <= Capacity

\* a call without strict enforcement that loaded more shards than the cache holds
C1_Witness ==
    /\ lastOp.name = "materialize"
    /\ lastOp.raised = "none"
    /\ Cardinality({j \in 1..Len(lastOp.trace) : lastOp.trace[j][1] = "load"}) > Capacity
    /\ Len(cache.items) = Capacity

\* C2: in one materialize call (a query makes one) that passes the strict check,
\* every requested shard that is resident on entry is hit before any shard is
\* loaded; and when the distinct requested shards fit the capacity, each of them
\* that was resident on entry is resident on exit (capacity 2, 3 shards, A
\* resident, query touching {A, B}: A is resident after the query).
C2_Step ==
    (lastOp'.name \in {"materialize", "getitem"} /\ ~OverCapacity(lastOp')) =>
        LET kinds == Kinds(lastOp'.trace)
        IN  /\ \A idx \in Range(lastOp'.indices) :
                Resident(cache, idx) =>
                    \E j \in 1..Len(kinds) :
                        /\ lastOp'.trace[j] = Event("hit", FileOf(idx))
                        /\ \A k \in 1..j : kinds[k] # "load"
            /\ Cardinality(Range(lastOp'.indices)) <= Capacity =>
                \A idx \in Range(lastOp'.indices) :
                    Resident(cache, idx) => Resident(cache', idx)

C2_ResidentTouchedFirst == [][C2_Step]_vars

\* three shards, capacity 2: a query hit the resident shard, then loaded another
C2_Witness ==
    /\ lastOp.name = "getitem"
    /\ Len(adatas) = 3
    /\ Capacity = 2
    /\ lastOp.raised = "none"
    /\ Len(lastOp.indices) = 2
    /\ Kinds(lastOp.trace) = <<"hit", "load", "evict">>
    /\ \A idx \in Range(lastOp.indices) : Resident(cache, idx)

\* C3: with strict enforcement, a materialize call that names more positions
\* than the capacity raises, resident or not, and leaves the cache as it was:
\* same entries, same recency order, nothing looked up or loaded.
C3_Step ==
    (lastOp'.name \in {"materialize", "getitem"} /\ OverCapacity(lastOp')) =>
        /\ lastOp'.raised = "AssertionError"
        /\ lastOp'.trace = <<>>
        /\ cache' = cache

C3_StrictRejectsByCount == [][C3_Step]_vars

\* a rejected call all of whose requested shards are resident
C3_Witness ==
    /\ lastOp.name = "materialize"
    /\ lastOp.raised = "AssertionError"
    /\ OverCapacity(lastOp)
    /\ \A idx \in Range(lastOp.indices) : Resident(cache, idx)

\* C4: with strict enforcement, after a successful materialize(S) the request
\* fitted the capacity, every shard of S is resident and the shards of S are
\* the most recently used entries (as many entries as S names shards); on five
\* shards with capacity 2 and only shard 0 resident, materialize([0, 1]) leaves
\* exactly shard 0, then shard 1, in recency order.
C4_Step ==
    (/\ lastOp'.name = "materialize"
     /\ cache_size_strictly_enforced
     /\ lastOp'.raised = "none") =>
        LET S == Range(lastOp'.indices)
        IN  /\ Len(lastOp'.indices) <= Capacity
            /\ \A idx \in S : Resident(cache', idx)
            /\ LastKeys(cache', Cardinality(S)) = {FileOf(idx) : idx \in S}
            /\ (/\ Len(adatas) = 5
                /\ Capacity = 2
                /\ Keys(cache) = <<0>>
                /\ lastOp'.indices = <<0, 1>>) => Keys(cache') = <<0, 1>>

C4_StrictMaterializeLeavesResident == [][C4_Step]_vars

\* the five-shard scenario: materialize([0, 1]) succeeded
C4_Witness ==
    /\ lastOp.name = "materialize"
    /\ cache_size_strictly_enforced
    /\ Len(adatas) = 5
    /\ Capacity = 2
    /\ lastOp.indices = <<0, 1>>
    /\ lastOp.raised = "none"
    /\ lastOp.trace = <<Event("hit", 0), Event("load", 1)>>
    /\ Keys(cache) = <<0, 1>>

\* C5: every entry of the cache has the row count its shard declares and the
\* columns of the schema, the entry of the first shard that construction
\* inserts included.
C5_OnlyValidatedContentCached ==
    built =>
        \A j \in 1..Len(cache.items) :
            \A k \in 1..Len(adatas) :
                adatas[k].filename = cache.items[j].key =>
                    /\ cache.items[j].value.n_obs = n_obs(adatas[k])
                    /\ cache.items[j].value.cols = schema[1]

\* C6: during one query the file of a shard is read at most once, and only if
\* the selector names a row of that shard.
C6_QueryLoadsTouchedOnce ==
    lastOp.name = "getitem" =>
        \A k \in 1..Len(adatas) :
            LET loads == Count(lastOp.trace, Event("load", adatas[k].filename))
            IN  /\ loads <= 1
                /\ loads = 1 => \E g \in Range(lastOp.args) : Inside(adatas[k], g)

\* C7: when the content of a shard is asked for twice in a row, the second call
\* is a cache hit that returns the content the first call returned, and the two
\* calls together read the file at most once.
C7_SecondMaterializeHits ==
    ~IsNone(lastOp.prev) =>
        LET f == FileOf(lastOp.indices[1])
            first == lastOp.prev[1]
        IN  /\ lastOp.raised = "none"
            /\ lastOp.trace = <<Event("hit", f)>>
            /\ lastOp.result = first.result
            /\ Count(first.trace, Event("load", f))
                   + Count(lastOp.trace, Event("load", f)) <= 1

\* the first call read the file, the second has run
C7_Witness ==
    /\ ~IsNone(lastOp.prev)
    /\ lastOp.name = "materialize"
    /\ lastOp.prev[1].trace[1] = Event("load", FileOf(lastOp.indices[1]))
    /\ lastOp.raised = "none"

\* C8: the presence check of a shard tells whether its file is in the cache and
\* leaves the cache as it was, entries and recency order, so the entry the
\* next insertion evicts is the same before and after the check.
C8_Step ==
    lastOp'.name = "cached" =>
        /\ cache' = cache
        /\ lastOp'.result = <<Resident(cache, lastOp'.indices[1])>>

C8_PresenceCheckIsNoTouch == [][C8_Step]_vars

\* the check found the least recently used entry of a full cache of two or more
C8_Witness ==
    /\ lastOp.name = "cached"
    /\ lastOp.result = <<TRUE>>
    /\ Len(cache.items) >= 2
    /\ Len(cache.items) = Capacity
    /\ cache.items[1].key = FileOf(lastOp.indices[1])

\* C9: one read of a shard's content is strict LRU on the cache: a hit moves
\* the entry to most recently used and evicts nothing; a load into a full cache
\* evicts exactly the least recently used entry; a load below capacity evicts
\* nothing; the new entry is the most recently used; a failed load changes
\* nothing.
C9_Step ==
    lastOp'.name = "adata" =>
        LET f == FileOf(lastOp'.indices[1])
            ks == Keys(cache)
        IN  IF HasKey(cache, f)
            THEN /\ lastOp'.trace = <<Event("hit", f)>>
                 /\ Keys(cache') = Append(SelectSeq(ks, LAMBDA k : k # f), f)
            ELSE IF lastOp'.raised # "none"
            THEN cache' = cache
            ELSE IF Len(ks) = Capacity
            THEN /\ lastOp'.trace = <<Event("load", f), Event("evict", ks[1])>>
                 /\ Keys(cache') = Append(Tail(ks), f)
            ELSE /\ lastOp'.trace = <<Event("load", f)>>
                 /\ Keys(cache') = Append(ks, f)

C9_StrictLRU == [][C9_Step]_vars

\* a load into a full cache of two evicted one entry
C9_Witness ==
    /\ lastOp.name = "adata"
    /\ lastOp.raised = "none"
    /\ Capacity = 2
    /\ Kinds(lastOp.trace) = <<"load", "evict">>
    /\ Len(cache.items) = 2

\* C10: a construction with valid arguments and no max_cache_size succeeds.
C10_UnsetCapacityConstructs ==
    (/\ lastOp.name = "construct"
     /\ IsNone(lastOp.args.max_cache_size)
     /\ InitArgError(lastOp.args.n, lastOp.args.limits, lastOp.args.shard_size,
                     lastOp.args.last_shard_size) = "none") =>
        /\ lastOp.raised = "none"
        /\ built

\* the shard of the collection that is backed by file f
ShardOf(f) == CHOOSE k \in 1..Len(adatas) : adatas[k].filename = f
\* the call reads shard content
ReadsShards(op) == op.name \in {"adata", "materialize", "getitem"}

\* C11: a construction reads the first file and no other: when it succeeds the
\* first file is the one file read and the one entry of the cache, and it never
\* raises a schema mismatch; a later call that reads a file whose columns
\* differ from the schema (its row count being the declared one) raises
\* SchemaMismatchError at that read, and only such a read raises it.
C11_ConstructionReadsFirstFileOnly ==
    /\ lastOp.name = "construct" =>
           /\ lastOp.raised # "SchemaMismatchError"
           /\ lastOp.raised # "none" => lastOp.trace = <<>> /\ lastOp.reads = <<>>
           /\ lastOp.raised = "none" =>
                  /\ lastOp.trace = <<Event("load", filenames[1])>>
                  /\ Len(lastOp.reads) = 1
                  /\ lastOp.reads[1].filename = filenames[1]
                  /\ Keys(cache) = <<filenames[1]>>
    /\ ReadsShards(lastOp) =>
           /\ \A j \in 1..Len(lastOp.reads) :
                  LET r == lastOp.reads[j]
                  IN  (/\ r.adata.cols # schema[1]
                       /\ r.adata.n_obs = n_obs(adatas[ShardOf(r.filename)])) =>
                          /\ lastOp.raised = "SchemaMismatchError"
                          /\ j = Len(lastOp.reads)
                          /\ ~HasKey(cache, r.filename)
           /\ lastOp.raised = "SchemaMismatchError" =>
                  /\ Len(lastOp.reads) > 0
                  /\ lastOp.reads[Len(lastOp.reads)].adata.cols # schema[1]

\* a shard after the first has columns the schema does not have: the read of its
\* content raised the mismatch
C11_Witness ==
    /\ lastOp.name = "adata"
    /\ lastOp.indices[1] > 0
    /\ lastOp.raised = "SchemaMismatchError"
    /\ lastOp.reads[1].adata.cols # schema[1]
    /\ lastOp.trace = <<Event("load", FileOf(lastOp.indices[1]))>>

\* the call gives both or neither of limits and shard_size, or last_shard_size
\* without shard_size
BadConfiguration(a) ==
    \/ IsNone(a.limits) = IsNone(a.shard_size)
    \/ IsNone(a.shard_size) /\ ~IsNone(a.last_shard_size)

\* C12: a construction that gives both or neither of limits and shard_size, or
\* last_shard_size without shard_size, fails (with ValueError when there is a
\* file name to look at) before any file is read and before a cache exists; a
\* construction that succeeds was given exactly one of the two.
C12_ExactlyOneOfLimitsAndShardSize ==
    lastOp.name = "construct" =>
        /\ BadConfiguration(lastOp.args) =>
               /\ lastOp.raised # "none"
               /\ lastOp.args.n > 0 => lastOp.raised = "ValueError"
               /\ lastOp.trace = <<>>
               /\ lastOp.reads = <<>>
               /\ ~built
               /\ cache = NoCache
        /\ lastOp.raised = "none" =>
               /\ IsNone(lastOp.args.limits) # IsNone(lastOp.args.shard_size)
               /\ ~IsNone(lastOp.args.last_shard_size) => ~IsNone(lastOp.args.shard_size)

\* a call with both limits and shard_size was refused
C12_Witness ==
    /\ lastOp.name = "construct"
    /\ ~IsNone(lastOp.args.limits)
    /\ ~IsNone(lastOp.args.shard_size)
    /\ lastOp.args.n = Len(lastOp.args.limits[1])
    /\ ~IsNone(lastOp.args.max_cache_size)
    /\ lastOp.raised = "ValueError"
    /\ ~built

\* C13: in a collection that was built, there are as many shards as boundaries,
\* shard i has the rows [limits[i-1], limits[i]) (from 0 for the first), every
\* shard has at least one row, and every row of [0, total_rows) lies in exactly
\* one shard and no shard has a row outside it.
C13_RangesContiguousAndCovering ==
    built =>
        /\ Len(adatas) = Len(limits)
        /\ \A j \in 1..Len(adatas) :
               /\ adatas[j].limits = <<IF j = 1 THEN 0 ELSE limits[j - 1], limits[j]>>
               /\ n_obs(adatas[j]) > 0
               /\ \A g \in 0..(MaxObs + 1) : Inside(adatas[j], g) => g < TotalRows
        /\ \A g \in 0..(TotalRows - 1) :
               Cardinality({j \in 1..Len(adatas) : Inside(adatas[j], g)}) = 1

\* row g of the table: the position of the shard that holds it and its offset there
Locate(g) ==
    LET j == CHOOSE k \in 1..Len(adatas) : Inside(adatas[k], g)
    IN  <<j - 1, g - adatas[j].limits[1]>>
\* every position of the selector is a row of the table
InTable(oidx) == \A k \in 1..Len(oidx) : oidx[k] >= 0 /\ oidx[k] < TotalRows
\* a query that returned a view
Answered(op) == op.name = "getitem" /\ op.raised = "none"

Named(oidx) == {g \in Range(oidx) : g >= 0 /\ g < TotalRows}
\* the shards that hold a row the selector names, as positions
Touched(oidx) == {Locate(g)[1] : g \in Named(oidx)}
\* the offsets asked of the shard at position idx
Offsets(resolved, idx) ==
    IF IsNone(resolved.adatas_oidx[idx + 1]) THEN {}
    ELSE Range(resolved.adatas_oidx[idx + 1][1])

\* C15: a query resolves each row g of the table that its selector names to
\* the one shard whose range holds g, at offset g - start, and to no other
\* shard; the shards it materializes are exactly the shards so resolved; with
\* boundaries [10, 25, 30] row 24 is shard 1 offset 14 and row 29 is shard 2
\* offset 4.
C15_ResolvesToShardAndOffset ==
    /\ lastOp.name = "getitem" => Range(lastOp.indices) = Touched(lastOp.args)
    /\ (Answered(lastOp) /\ InTable(lastOp.args)) =>
           \A idx \in ShardPositions :
               Offsets(lastOp.result, idx) =
                   {g - adatas[idx + 1].limits[1] :
                       g \in {h \in Named(lastOp.args) : Locate(h)[1] = idx}}
    /\ LET shards == LazyAdatas(<<10, 25, 30>>, <<0, 1, 2>>)
       IN  /\ ResolveIdx(shards, <<24>>) = <<None, Some(<<14>>), None>>
           /\ ResolveIdx(shards, <<29>>) = <<None, None, Some(<<4>>)>>

\* C15 holds of every query whose selector names at least one row of the table
C15_HoldsWhenARowIsNamed ==
    (lastOp.name = "getitem" /\ Named(lastOp.args) # {}) =>
        C15_ResolvesToShardAndOffset

\* C16: a query whose selector has a position outside [0, total_rows) raises,
\* reads no file, and leaves the cache (entries and recency order) and the
\* shard list as they were.
C16_Step ==
    (lastOp'.name = "getitem" /\ ~InTable(lastOp'.args)) =>
        /\ lastOp'.raised # "none"
        /\ lastOp'.reads = <<>>
        /\ cache' = cache
        /\ adatas' = adatas

C16_OutOfRangeQueryFails == [][C16_Step]_vars

\* the row ranges of a shard list, in order
RowRanges(shards) == [j \in 1..Len(shards) |-> shards[j].limits]

\* C17: __setstate__ on the state __getstate__ returned succeeds and gives a
\* collection with the same filenames, boundaries, capacity, strictness flag
\* and schema, a shard list with the same files and row ranges, and an empty
\* cache of that capacity: no shard is resident, whatever was resident when
\* the state was taken.
C17_Step ==
    lastOp'.name = "setstate" =>
        /\ lastOp'.raised = "none"
        /\ built'
        /\ filenames' = filenames
        /\ limits' = limits
        /\ max_cache_size' = max_cache_size
        /\ cache_size_strictly_enforced' = cache_size_strictly_enforced
        /\ schema' = schema
        /\ RowRanges(adatas') = RowRanges(adatas)
        /\ adatas' = adatas
        /\ cache'.items = <<>>
        /\ cache'.max_size = max_cache_size[1]
        /\ \A j \in 1..Len(adatas') : ~HasKey(cache', adatas'[j].filename)

C17_SaveRestoreKeepsMetadataDropsCache == [][C17_Step]_vars

\* two shards, the first among them, were resident when the state was taken
C17_Witness ==
    /\ lastOp.name = "setstate"
    /\ lastOp.raised = "none"
    /\ Len(lastOp.indices) = 2
    /\ filenames[1] \in Range(lastOp.indices)
    /\ Len(adatas) = 3
    /\ cache.items = <<>>

\* the file content passes the checks of the shard backed by its file
PassesChecks(r) ==
    /\ r.adata.n_obs = n_obs(adatas[ShardOf(r.filename)])
    /\ validate_anndata(schema[1], r.adata) = "none"

\* C18: in a query, a file whose content fails the row-count or the schema check
\* is the last file the query reads: the query raises and returns no view, and
\* the file is not in the cache afterwards; the next read of that shard's
\* content reads the file again.
C18_FailedLoadAbortsQuery ==
    /\ lastOp.name = "getitem" =>
           \A j \in 1..Len(lastOp.reads) :
               ~PassesChecks(lastOp.reads[j]) =>
                   /\ j = Len(lastOp.reads)
                   /\ lastOp.raised \in {"AssertionError", "SchemaMismatchError"}
                   /\ lastOp.result = <<>>
                   /\ ~HasKey(cache, lastOp.reads[j].filename)
    /\ (lastOp.name = "getitem" /\ lastOp.raised # "none") => lastOp.result = <<>>
    /\ lastOp.name = "retry" =>
           /\ Len(lastOp.trace) > 0
           /\ lastOp.trace[1] = Event("load", FileOf(lastOp.indices[1]))
           /\ Len(lastOp.reads) = 1

\* a query read one shard, stopped at the second, and the second was read again
C18_Witness ==
    /\ lastOp.name = "retry"
    /\ lastOp.args.failed = "getitem"
    /\ lastOp.indices[1] > 0
    /\ lastOp.trace[1] = Event("load", FileOf(lastOp.indices[1]))
    /\ Len(cache.items) > 0

\* adata is content of file f that the step had in hand: read by the call, or
\* in the cache when the call began
ContentOf(op, f, adata) ==
    \/ \E j \in 1..Len(op.reads) : op.reads[j] = [filename |-> f, adata |-> adata]
    \/ \E j \in 1..Len(cache.items) : cache.items[j] = [key |-> f, value |-> adata]

\* C20: a materialize call that returns gives a list as long as the request,
\* every entry of which is not None and is the content of the shard at the
\* position the request names there, also when a shard is named twice.
C20_Step ==
    (lastOp'.name = "materialize" /\ lastOp'.raised = "none") =>
        /\ Len(lastOp'.result) = Len(lastOp'.indices)
        /\ \A i \in 1..Len(lastOp'.indices) :
               /\ ~IsNone(lastOp'.result[i])
               /\ ContentOf(lastOp', FileOf(lastOp'.indices[i]), lastOp'.result[i][1])

C20_MaterializeReturnsEveryShard == [][C20_Step]_vars

\* C20 holds of every request that names no shard twice
C20_HoldsWithoutRepetition ==
    [][Cardinality(Range(lastOp'.indices)) = Len(lastOp'.indices) => C20_Step]_vars

\* C19: reading an attribute the backed AnnData has, of a shard of a built
\* collection, goes through the cache (a hit or a file read) and gives the value
\* of the shard's content, never a schema value and never AttributeError,
\* whatever another thread that builds a collection is doing.
C19_AttributeAccessIgnoresProcessState ==
    (lastOp.name = "getattr" /\ lastOp.args.attr \in AnnDataAttrs) =>
        /\ Len(lastOp.trace) > 0
        /\ lastOp.raised # "AttributeError"
        /\ lastOp.raised = "none" => lastOp.result[1].kind = "content"

\* C21: in a run of one thread the flag is True only while a construction is
\* inside its `with lazy_getattr()` block, and False once the construction has
\* returned or raised; so reading an attribute the backed AnnData has, of a
\* shard, outside a construction goes through the cache (a hit or a file read)
\* and gives the value of the shard's content.
C21_FlagTrueOnlyDuringConstruction ==
    /\ lazy => peer = "in"
    /\ peer \in {"returned", "raised"} => ~lazy
    /\ (lastOp.name = "getattr" /\ lastOp.args.attr \in AnnDataAttrs) =>
           /\ Len(lastOp.trace) > 0
           /\ lastOp.raised # "AttributeError"
           /\ lastOp.raised = "none" => lastOp.result[1].kind = "content"

\* after a construction that raised, an attribute of a shard was read from the
\* cached content
C21_Witness ==
    /\ peer = "raised"
    /\ ~lazy
    /\ lastOp.name = "getattr"
    /\ lastOp.args.attr = "obs"
    /\ lastOp.raised = "none"
    /\ lastOp.result[1].kind = "content"
    /\ lastOp.trace = <<Event("hit", FileOf(lastOp.indices[1]))>>

====
